---- MODULE Spec2Model ----
(***************************************************************************)
(* A model of the Tiki product crawler (Project2): TikiCrawler.crawl and   *)
(* its helpers, the CrawlStats tracker, DeduplicationUtils and the         *)
(* FileHandler, over an output directory that survives process restarts.   *)
(*                                                                         *)
(* Strings such as "HTTP 500" are modelled as the sequence of their        *)
(* whitespace-separated words, so str.split() is the identity on them and  *)
(* a substring test is a test on the words.  A JSON file is modelled by    *)
(* the array it holds.  Timestamps are the number of the run that made the *)
(* record.                                                                 *)
(***************************************************************************)
EXTENDS Integers, Sequences, FiniteSets, TLC

\* ------------------------------------------------------------------ bounds
\* Number of processes (crawl() runs) started over the same output directory.
MaxRuns == 2
\* Length of the product_ids.csv column read by load_product_ids.
MaxInputLen == 3
\* Largest max_retries a crawler is constructed with.
MaxRetries == 3

\* Largest number of records in a batch file found in the output folder before the
\* first run.
MaxFileLen == 2

\* Identifiers found in the input file.
Ids == {"A", "B", "C"}
\* Constructor arguments <<batch_size, concurrent_requests>> of the crawlers run on
\* whole input files: one id per batch, two windows per batch, one window per batch.
Configs == {<<1, 1>>, <<2, 1>>, <<2, 2>>}
\* Their constructor argument max_retries.
Retries == {2}

\* ------------------------------------------------------- Python/JSON values
\* Python None held in a str-typed slot (last_error), and JSON null in a record.
None == <<"<None>">>
Null == "null"

Min(a, b) == IF a < b THEN a ELSE b

Range(s) == {s[k] : k \in DOMAIN s}

\* [f(x) for x in s if P(x)] keeps list order: SelectSeq does the filtering.
RECURSIVE Flatten(_)
Flatten(ss) == IF ss = <<>> THEN <<>> ELSE Head(ss) \o Flatten(Tail(ss))

\* All orders in which os.listdir may return the members of S.
Orders(S) == {o \in [1..Cardinality(S) -> S] : \A a, b \in DOMAIN o : a # b => o[a] # o[b]}

\* Lists of identifiers a CSV column of at most n rows can hold.
Lists(n) == UNION {[1..k -> Ids] : k \in 0..n}

\* str(int): decimal digits, most significant first.
Digit == <<"0", "1", "2", "3", "4", "5", "6", "7", "8", "9">>
RECURSIVE IntToStr(_)
IntToStr(n) == IF n < 10 THEN Digit[n + 1] ELSE IntToStr(n \div 10) \o Digit[(n % 10) + 1]

\* str.lower() on one word.
Lower(w) ==
    CASE w = "TIMEOUT" -> "timeout"
      [] w = "Timeout" -> "timeout"
      [] w = "ERROR" -> "error"
      [] w = "HTTP_ERROR" -> "http_error"
      [] w = "UNKNOWN" -> "unknown"
      [] w = "HTTP" -> "http"
      [] w = "Request" -> "request"
      [] w = "Cannot" -> "cannot"
      [] w = "Invalid" -> "invalid"
      [] w = "None" -> "none"
      [] OTHER -> w

\* str(x) for a value that is a str or None.
Str(x) == IF x = None THEN <<"None">> ELSE x

\* Python truthiness of a JSON scalar.
Truthy(v) == v \notin {Null, "", "0"}

\* --------------------------------------------------------------- CrawlStats
\* CrawlStats.__init__
NewStats ==
    [total_products |-> 0, completed |-> 0, failed |-> 0,
     error_codes |-> <<>>, products_with_missing_fields |-> 0,
     failed_products |-> <<>>]

\* defaultdict(int): d[k] += 1
Incr(d, k) == IF k \in DOMAIN d THEN [d EXCEPT ![k] = @ + 1] ELSE d @@ (k :> 1)

\* Mutant of add_success: the increment of completed is lost.
add_success_Lost(stats) == stats

add_success(stats) == [stats EXCEPT !.completed = @ + 1]

add_missing_fields(stats) == [stats EXCEPT !.products_with_missing_fields = @ + 1]

FailureRecord(status_code, product_id, error_message, now) ==
    [product_id |-> product_id,
     error_code |-> status_code,
     error_message |-> IF error_message = None THEN <<>> ELSE error_message,
     timestamp |-> now]

\* Mutant of add_failure: the failure is counted but no FailureRecord is kept.
add_failure_CountOnly(stats, status_code, product_id, error_message, now) ==
    [stats EXCEPT
       !.failed = @ + 1,
       !.error_codes = IF status_code # "" THEN Incr(@, status_code) ELSE @]

add_failure(stats, status_code, product_id, error_message, now) ==
    [stats EXCEPT
       !.failed = @ + 1,
       !.error_codes = IF status_code # "" THEN Incr(@, status_code) ELSE @,
       !.failed_products =
           IF product_id # ""
           THEN Append(@, FailureRecord(status_code, product_id, error_message, now))
           ELSE @]

\* ------------------------------------------------------- DeduplicationUtils
\* Mutant of deduplicate_list: the last occurrence of an id is the one kept.
RECURSIVE deduplicate_list_KeepLast(_)
deduplicate_list_KeepLast(items) ==
    IF items = <<>> THEN <<>>
    ELSE IF Head(items) \in Range(Tail(items))
    THEN deduplicate_list_KeepLast(Tail(items))
    ELSE <<Head(items)>> \o deduplicate_list_KeepLast(Tail(items))

\* list(dict.fromkeys(items)): first occurrences, in order.
RECURSIVE deduplicate_list(_)
deduplicate_list(items) ==
    IF items = <<>> THEN <<>>
    ELSE LET init == SubSeq(items, 1, Len(items) - 1)
             last == items[Len(items)]
             d == deduplicate_list(init)
         IN IF last \in Range(d) THEN d ELSE Append(d, last)

\* Mutant of get_already_crawled_ids: only products_1.json is read.
get_already_crawled_ids_FirstFileOnly(products) ==
    {r.id : r \in UNION {Range(products[f]) : f \in DOMAIN products \cap {1}}}

\* The ids of the records of every products_N.json, as strings, falsy ids left out.
get_already_crawled_ids(products) ==
    {r.id : r \in {q \in UNION {Range(products[f]) : f \in DOMAIN products} : Truthy(q.id)}}

\* Mutant of NotCrawled: the completed ids are not taken out of the list.
NotCrawled_NoFilter(product_ids, already_crawled) == product_ids

\* In filter_uncrawled_products: [pid for pid in product_ids if pid not in already_crawled]
NotCrawled(product_ids, already_crawled) ==
    SelectSeq(product_ids, LAMBDA pid : pid \notin already_crawled)

filter_uncrawled_products(product_ids, products) ==
    NotCrawled(product_ids, get_already_crawled_ids(products))

\* The records check_duplicate_products_in_output reads, in reading order, each as
\* <<str(product.get('id', 'unknown')), batch number of its file>>; order is the
\* order in which os.listdir returns the files.
Occurrences(products, order) ==
    Flatten([k \in DOMAIN order |->
                [j \in DOMAIN products[order[k]] |->
                    <<IF products[order[k]][j].id = Null
                      THEN "None" ELSE products[order[k]][j].id,
                      order[k]>>]])

\* product_ids_seen[product_id]: one file name appended per record with that id.
ProductIdsSeen(occurrences, product_id) ==
    LET mine == SelectSeq(occurrences, LAMBDA o : o[1] = product_id)
    IN [k \in DOMAIN mine |-> mine[k][2]]

\* The test that puts an id in duplicates: len(files) > 1.
Reported(files) == Len(files) > 1

\* duplicates of check_duplicate_products_in_output: id -> the files (by batch
\* number) appended for it, for the ids that pass the test.
check_duplicate_products_in_output(products, order) ==
    LET occurrences == Occurrences(products, order)
        ids == {o[1] : o \in Range(occurrences)}
    IN [id \in {x \in ids : Reported(ProductIdsSeen(occurrences, x))} |->
           ProductIdsSeen(occurrences, id)]

\* ------------------------------------------------------------- the remote API
\* Markup the catalog puts in descriptions.
Tags == {"<p>", "</p>"}

\* The JSON object of a 200 response for product pid: complete, or with no price.
Payload(pid, kind) ==
    [id |-> pid, name |-> "name", url_key |-> "key",
     price |-> IF kind = "noprice" THEN Null ELSE "100",
     description |-> <<"<p>", "text", "</p>">>,
     images |-> <<[base_url |-> "img1"], [base_url |-> "img2"]>>]

PayloadKinds == {"full", "noprice"}

\* Statuses other than 200 the service answers with.
Statuses == {404, 500}

\* str(e) of the exceptions other than asyncio.TimeoutError (a refused connection,
\* a body that is not JSON).
ExceptionTexts ==
    {<<"Cannot", "connect">>, <<"Timeout", "context", "manager">>,
     <<"Invalid", "HTTP", "response">>}

\* A 200 response carrying the payload of the given kind.
OkOutcome(kind) == [type |-> "ok", kind |-> kind, status |-> 200, text |-> <<>>]

\* No attempt has ended yet.
NoOutcome == [type |-> "none", kind |-> "", status |-> 0, text |-> <<>>]

\* What one session.get attempt can end in.
Outcomes ==
    {OkOutcome(k) : k \in PayloadKinds}
    \cup {[type |-> "status", kind |-> "", status |-> s, text |-> <<>>] : s \in Statuses}
    \cup {[type |-> "timeout", kind |-> "", status |-> 0, text |-> <<>>]}
    \cup {[type |-> "exception", kind |-> "", status |-> 0, text |-> t] : t \in ExceptionTexts}

\* --------------------------------------------------------------- TikiCrawler
\* re.sub(r"<[^>]+>", "", text), whitespace collapsed, stripped.
clean_description(text) ==
    IF text = <<>> THEN <<>> ELSE SelectSeq(text, LAMBDA w : w \notin Tags)

\* Mutant of has_missing_fields: price is not among the required fields.
has_missing_fields_NoPrice(product_data) ==
    \/ ~Truthy(product_data.id)
    \/ ~Truthy(product_data.name)
    \/ ~Truthy(product_data.url_key)
    \/ product_data.description = <<>>
    \/ Len(product_data.images) = 0

has_missing_fields(product_data) ==
    \/ ~Truthy(product_data.id)
    \/ ~Truthy(product_data.name)
    \/ ~Truthy(product_data.url_key)
    \/ ~Truthy(product_data.price)
    \/ product_data.description = <<>>
    \/ Len(product_data.images) = 0

\* product_data built from the response body in fetch_product.
ProductData(data) ==
    [id |-> data.id, name |-> data.name, url_key |-> data.url_key,
     price |-> data.price,
     description |-> clean_description(data.description),
     images |-> [k \in DOMAIN data.images |-> data.images[k].base_url]]

\* Mutant of Handled: the except Exception clause is missing.
Handled_NoGenericExcept(outcome) == outcome.type \in {"status", "timeout"}

\* Whether fetch_product's try statement deals with the outcome itself: the else
\* branch of the status test, except asyncio.TimeoutError, except Exception.
Handled(outcome) == outcome.type \in {"status", "timeout", "exception"}

\* last_error after an attempt that did not return a record.
LastError(outcome) ==
    CASE outcome.type = "status" -> <<"HTTP", IntToStr(outcome.status)>>
      [] outcome.type = "timeout" -> <<"Request", "timeout">>
      [] OTHER -> outcome.text

\* Mutant of AssignLastError: the first error of the task is kept.
AssignLastError_KeepFirst(last_error, outcome) ==
    IF last_error = None THEN LastError(outcome) ELSE last_error

\* last_error = ... in the attempt loop: each failed attempt overwrites it.
AssignLastError(last_error, outcome) == LastError(outcome)

\* error_code computed from last_error once every attempt has failed.
ErrorCode(last_error) ==
    LET words == Str(last_error)
        base == IF \E k \in DOMAIN words : Lower(words[k]) = "timeout"
                THEN "TIMEOUT" ELSE "ERROR"
    IN IF \E k \in DOMAIN words : words[k] = "HTTP"
       THEN IF Len(last_error) > 1 THEN last_error[2] ELSE "HTTP_ERROR"
       ELSE base

\* Mutant of BackoffDelay: a fixed delay.
BackoffDelay_Constant(attempt) == 1

\* await asyncio.sleep(1 * (attempt + 1))
BackoffDelay(attempt) == 1 * (attempt + 1)

\* Whether another attempt follows attempt number `attempt` (0-based).
RetriesLeft(attempt, max_retries) == attempt < max_retries - 1

\* -------------------------------------------------------------- FileHandler
\* open(filename, 'w') and write: the file is created or replaced.
WriteFile(dir, filename, content) ==
    [f \in DOMAIN dir \cup {filename} |-> IF f = filename THEN content ELSE dir[f]]

\* Mutant of BatchExists: the existence test is missing.
BatchExists_Never(products, batch_num) == FALSE

\* os.path.exists(f"{output_folder}/products_{batch_num}.json")
BatchExists(products, batch_num) == batch_num \in DOMAIN products

save_batch(products, results, batch_index) ==
    WriteFile(products, batch_index + 1, results)

\* Mutant of MergeFailed: the new records are appended without the product_id test.
MergeFailed_NoDedup(existing_failed, products) == existing_failed \o products

\* "Combine and deduplicate" of save_failed_products_by_error.
MergeFailed(existing_failed, products) ==
    LET existing_ids == {existing_failed[k].product_id : k \in DOMAIN existing_failed}
        new_failed == SelectSeq(products, LAMBDA p : p.product_id \notin existing_ids)
    IN existing_failed \o new_failed

\* The loop of save_failed_products_by_error over failed_by_error, whose keys are
\* the error codes in order of first appearance.
RECURSIVE SaveGroups(_, _, _)
SaveGroups(dir, codes, failed_products) ==
    IF codes = <<>> THEN dir
    ELSE LET error_code == Head(codes)
             products == SelectSeq(failed_products, LAMBDA p : p.error_code = error_code)
             filename == Lower(error_code)
             existing_failed == IF filename \in DOMAIN dir THEN dir[filename] ELSE <<>>
         IN SaveGroups(WriteFile(dir, filename, MergeFailed(existing_failed, products)),
                       Tail(codes), failed_products)

\* The failed_<code>.json files after save_failed_products_by_error.
SaveFailedByError(dir, failed_products) ==
    IF failed_products = <<>> THEN dir
    ELSE SaveGroups(dir,
                    deduplicate_list([k \in DOMAIN failed_products |->
                                          failed_products[k].error_code]),
                    failed_products)

\* all_failed_products.json after save_failed_products_by_error: a list holding
\* the file's array, empty while the file does not exist.
SaveAllFailed(all_failed, failed_products) ==
    IF failed_products = <<>> THEN all_failed ELSE <<failed_products>>

\* The first loop of load_existing_results, over the records of the products files.
RECURSIVE ReplayProducts(_, _)
ReplayProducts(stats, data) ==
    IF data = <<>> THEN stats
    ELSE LET s1 == add_success(stats)
             s2 == IF has_missing_fields(Head(data)) THEN add_missing_fields(s1) ELSE s1
         IN ReplayProducts(s2, Tail(data))

\* The second loop, over the records of the failed files.
RECURSIVE ReplayFailed(_, _)
ReplayFailed(stats, failed_data) ==
    IF failed_data = <<>> THEN stats
    ELSE LET failed_item == Head(failed_data)
         IN ReplayFailed([stats EXCEPT !.failed = @ + 1,
                                       !.error_codes = Incr(@, failed_item.error_code),
                                       !.failed_products = Append(@, failed_item)],
                         Tail(failed_data))

\* The records of the products files as the first loop meets them; the counters it
\* adds to do not depend on the order os.listdir returns the files in, and the
\* files are taken by batch number.
RECURSIVE ProductsData(_, _)
ProductsData(products, n) ==
    IF n = 0 THEN <<>>
    ELSE ProductsData(products, n - 1) \o (IF n \in DOMAIN products THEN products[n] ELSE <<>>)

\* Largest batch number a run can write.
MaxBatchNum == MaxInputLen

\* load_existing_results, with os.listdir returning the failed files in the order
\* forder.
load_existing_results(stats, products, failed, forder) ==
    ReplayFailed(
        ReplayProducts(stats, ProductsData(products, MaxBatchNum)),
        Flatten([k \in DOMAIN forder |-> failed[forder[k]]]))

\* -------------------------------------------------------------------- state
VARIABLES
    products_json,        \* output folder: batch number N -> array of products_N.json
    failed_json,          \* output folder: <code> -> array of failed_<code>.json
    all_failed_products,  \* <<array>> of all_failed_products.json, <<>> while absent
    run,                  \* number of processes started so far (the clock)
    pc,                   \* where the process is: idle (none), loaded, batch, gather,
                          \* save, audit, done
    product_ids,          \* self.product_ids
    batch_size,           \* self.batch_size
    concurrent_requests,  \* self.concurrent_requests
    max_retries,          \* self.max_retries
    stats,                \* self.stats
    start,                \* loop variable of crawl()
    i,                    \* loop variable of fetch_batch()
    results,              \* results of fetch_batch()
    tasks,                \* the fetch_product coroutines of the window being gathered
    dispatched,           \* ids fetch_product was called for by this process
    duplicates            \* duplicates of the last check_duplicate_products_in_output

disk == <<products_json, failed_json, all_failed_products>>
config == <<batch_size, concurrent_requests, max_retries>>
vars == <<products_json, failed_json, all_failed_products, run, pc, product_ids,
          batch_size, concurrent_requests, max_retries, stats, start, i, results,
          tasks, dispatched, duplicates>>

\* Loop variables of crawl() at `start`.
BatchEnd == Min(start + batch_size, Len(product_ids))
BatchIds == SubSeq(product_ids, start + 1, BatchEnd)
BatchIndex == start \div batch_size
BatchNum == BatchIndex + 1

\* chunk_ids = product_ids[i:i+self.concurrent_requests] of fetch_batch.
ChunkIds(batch, at) == SubSeq(batch, at + 1, Min(at + concurrent_requests, Len(batch)))

\* ------------------------------------------------------------ fetch_product
\* The failure path after the loop: classify last_error and report it.
ReportFailure(st, product_id, last_error) ==
    add_failure(st, ErrorCode(last_error), product_id, last_error, run)

\* A fetch_product coroutine run up to its first await: awaiting the first
\* response, or finished at once when the loop body never runs.
StartTask(product_id) ==
    IF 0 < max_retries
    THEN [product_id |-> product_id, at |-> "get", attempt |-> 0, last_error |-> None,
          returned |-> <<>>, requests |-> 1, sleeps |-> <<>>, reports |-> <<>>,
          outcome |-> NoOutcome]
    ELSE [product_id |-> product_id, at |-> "done", attempt |-> 0, last_error |-> None,
          returned |-> <<>>, requests |-> 0, sleeps |-> <<>>,
          reports |-> <<<<"add_failure", ErrorCode(None)>>>>,
          outcome |-> NoOutcome]

\* gather starts the coroutines of a window in list order.
StartTasks(chunk_ids) == [k \in DOMAIN chunk_ids |-> StartTask(chunk_ids[k])]

RECURSIVE StatsAfterStart(_, _)
StatsAfterStart(st, chunk_ids) ==
    IF chunk_ids = <<>> \/ 0 < max_retries THEN st
    ELSE StatsAfterStart(ReportFailure(st, Head(chunk_ids), None), Tail(chunk_ids))

\* The stats calls fetch_product makes for a 200 response.
ReportsOfSuccess(product_data) ==
    IF has_missing_fields(product_data)
    THEN <<<<"add_missing_fields">>, <<"add_success">>>>
    ELSE <<<<"add_success">>>>

\* session.get of task k answers 200 with a JSON body: the record is returned.
Success(k, kind) ==
    LET t == tasks[k]
        product_data == ProductData(Payload(t.product_id, kind))
        s1 == IF has_missing_fields(product_data) THEN add_missing_fields(stats) ELSE stats
    IN /\ pc = "gather"
       /\ t.at = "get"
       /\ stats' = add_success(s1)
       /\ tasks' = [tasks EXCEPT ![k] = [t EXCEPT !.at = "done",
                                                   !.returned = <<product_data>>,
                                                   !.reports = @ \o ReportsOfSuccess(product_data),
                                                   !.outcome = OkOutcome(kind)]]
       /\ UNCHANGED <<disk, run, pc, product_ids, config, start, i, results, dispatched, duplicates>>

\* session.get of task k fails (other status, timeout, other exception): the
\* coroutine sleeps before the next attempt, or reports the failure after the last;
\* an exception no except clause catches leaves the coroutine ("raised").
Failure(k, outcome) ==
    LET t == tasks[k]
        last_error == AssignLastError(t.last_error, outcome)
    IN /\ pc = "gather"
       /\ t.at = "get"
       /\ outcome.type # "ok"
       /\ IF ~Handled(outcome)
          THEN /\ tasks' = [tasks EXCEPT ![k] = [t EXCEPT !.at = "raised",
                                                         !.outcome = outcome]]
               /\ stats' = stats
          ELSE IF RetriesLeft(t.attempt, max_retries)
          THEN /\ tasks' = [tasks EXCEPT ![k] = [t EXCEPT !.at = "sleep",
                                                         !.last_error = last_error,
                                                         !.outcome = outcome,
                                                         !.sleeps = Append(@, BackoffDelay(t.attempt))]]
               /\ stats' = stats
          ELSE /\ tasks' = [tasks EXCEPT ![k] = [t EXCEPT !.at = "done",
                                                         !.last_error = last_error,
                                                         !.outcome = outcome,
                                                         !.reports = Append(@, <<"add_failure", ErrorCode(last_error)>>)]]
               /\ stats' = ReportFailure(stats, t.product_id, last_error)
       /\ UNCHANGED <<disk, run, pc, product_ids, config, start, i, results, dispatched, duplicates>>

\* asyncio.sleep of task k ends: the next attempt is sent.
Retry(k) ==
    LET t == tasks[k]
    IN /\ pc = "gather"
       /\ t.at = "sleep"
       /\ tasks' = [tasks EXCEPT ![k] = [t EXCEPT !.at = "get",
                                                   !.attempt = @ + 1,
                                                   !.requests = @ + 1]]
       /\ UNCHANGED <<disk, run, pc, product_ids, config, stats, start, i, results, dispatched, duplicates>>

\* -------------------------------------------------------------------- crawl
\* Mutant of WindowResults: the records are collected last task first.
RECURSIVE WindowResults_Reversed(_)
WindowResults_Reversed(ts) ==
    IF ts = <<>> THEN <<>> ELSE WindowResults_Reversed(Tail(ts)) \o Head(ts).returned

\* Mutant of WindowDone: the window is not awaited.
WindowDone_NoWait(ts) == TRUE

\* The window loop of fetch_batch once gather has returned: the records are
\* collected in task order, then either the next window starts or the batch is done.
WindowResults(ts) == Flatten([k \in DOMAIN ts |-> ts[k].returned])

\* All tasks of the window have finished (what gather awaits).
WindowDone(ts) == \A k \in DOMAIN ts : ts[k].at = "done"

\* Mutant of NothingPending: crawl() does not return early.
NothingPending_Never(pending) == FALSE

\* if not self.product_ids: nothing is left to crawl.
NothingPending(pending) == pending = <<>>

\* Mutant of LoopDone: the code after the batch loop runs before the loop ends.
LoopDone_Early(at, n) == TRUE

\* for start in range(0, len(self.product_ids), self.batch_size) is exhausted.
LoopDone(at, n) == at >= n

\* Mutant of NextStart: the loop variable does not advance.
NextStart_Stuck(at, step) == at

\* The next value of the loop variable of range(0, n, batch_size).
NextStart(at, step) == at + step

\* self.stats after deduplicate_input_ids and load_existing_results in crawl().
StatsAtCrawl(ids, forder) ==
    load_existing_results([NewStats EXCEPT !.total_products = Len(deduplicate_list(ids))],
                          products_json, failed_json, forder)

\* self.product_ids after deduplicate_input_ids and filter_uncrawled_products.
PendingAtCrawl(ids) == filter_uncrawled_products(deduplicate_list(ids), products_json)

\* main() up to crawl(): a process starts, constructs the crawler and loads the ids.
LoadProductIds(ids, bs, cr, mr) ==
    /\ pc \in {"idle", "done"}
    /\ run < MaxRuns
    /\ run' = run + 1
    /\ batch_size' = bs
    /\ concurrent_requests' = cr
    /\ max_retries' = mr
    /\ stats' = [NewStats EXCEPT !.total_products = Len(ids)]
    /\ product_ids' = ids
    /\ pc' = "loaded"
    /\ start' = 0
    /\ i' = 0
    /\ results' = <<>>
    /\ tasks' = <<>>
    /\ dispatched' = {}
    /\ duplicates' = <<>>
    /\ UNCHANGED disk

\* crawl() up to its first batch: deduplicate, replay the output folder, filter;
\* with nothing left it prints the summary and returns.
Crawl(forder) ==
    /\ pc = "loaded"
    /\ stats' = StatsAtCrawl(product_ids, forder)
    /\ LET pending == PendingAtCrawl(product_ids)
       IN /\ product_ids' = pending
          /\ pc' = IF NothingPending(pending) THEN "done" ELSE "batch"
    /\ UNCHANGED <<disk, run, config, start, i, results, tasks, dispatched, duplicates>>

\* main() as one step: LoadProductIds followed by Crawl.
Main(ids, bs, cr, mr, forder) ==
    /\ pc \in {"idle", "done"}
    /\ run < MaxRuns
    /\ run' = run + 1
    /\ batch_size' = bs
    /\ concurrent_requests' = cr
    /\ max_retries' = mr
    /\ stats' = StatsAtCrawl(ids, forder)
    /\ LET pending == PendingAtCrawl(ids)
       IN /\ product_ids' = pending
          /\ pc' = IF NothingPending(pending) THEN "done" ELSE "batch"
    /\ start' = 0
    /\ i' = 0
    /\ results' = <<>>
    /\ tasks' = <<>>
    /\ dispatched' = {}
    /\ duplicates' = <<>>
    /\ UNCHANGED disk

\* for start in range(...): the file of this batch exists, continue.
SkipBatch ==
    /\ pc = "batch"
    /\ ~LoopDone(start, Len(product_ids))
    /\ BatchExists(products_json, BatchNum)
    /\ start' = NextStart(start, batch_size)
    /\ UNCHANGED <<disk, run, pc, product_ids, config, stats, i, results, tasks, dispatched,
                   duplicates>>

\* The file does not exist: fetch_batch starts and gathers its first window.
FetchBatch ==
    /\ pc = "batch"
    /\ ~LoopDone(start, Len(product_ids))
    /\ ~BatchExists(products_json, BatchNum)
    /\ pc' = "gather"
    /\ i' = 0
    /\ results' = <<>>
    /\ tasks' = StartTasks(ChunkIds(BatchIds, 0))
    /\ stats' = StatsAfterStart(stats, ChunkIds(BatchIds, 0))
    /\ dispatched' = dispatched \cup Range(ChunkIds(BatchIds, 0))
    /\ UNCHANGED <<disk, run, product_ids, config, start, duplicates>>

\* gather returns: results.extend(...), then the next window or the end of fetch_batch.
Gather ==
    /\ pc = "gather"
    /\ WindowDone(tasks)
    /\ results' = results \o WindowResults(tasks)
    /\ i' = i + concurrent_requests
    /\ IF i + concurrent_requests < Len(BatchIds)
       THEN /\ tasks' = StartTasks(ChunkIds(BatchIds, i + concurrent_requests))
            /\ stats' = StatsAfterStart(stats, ChunkIds(BatchIds, i + concurrent_requests))
            /\ dispatched' = dispatched \cup Range(ChunkIds(BatchIds, i + concurrent_requests))
            /\ pc' = pc
       ELSE /\ tasks' = <<>>
            /\ pc' = "save"
            /\ UNCHANGED <<stats, dispatched>>
    /\ UNCHANGED <<disk, run, product_ids, config, start, duplicates>>

\* save_batch writes the batch file; after the pause the loop moves on.
SaveBatch ==
    /\ pc = "save"
    /\ products_json' = save_batch(products_json, results, BatchIndex)
    /\ start' = NextStart(start, batch_size)
    /\ pc' = "batch"
    /\ UNCHANGED <<failed_json, all_failed_products, run, product_ids, config, stats, i,
                   results, tasks, dispatched, duplicates>>

\* After the last batch: save_failed_products_by_error, then the summary.
Finish ==
    /\ pc = "batch"
    /\ LoopDone(start, Len(product_ids))
    /\ failed_json' = SaveFailedByError(failed_json, stats.failed_products)
    /\ all_failed_products' = SaveAllFailed(all_failed_products, stats.failed_products)
    /\ pc' = "audit"
    /\ UNCHANGED <<products_json, run, product_ids, config, stats, start, i, results,
                   tasks, dispatched, duplicates>>

\* Post-crawl analysis: check_duplicate_products_in_output reads the folder in the
\* order os.listdir gives; crawl() returns.
PostCrawlAnalysis(porder) ==
    /\ pc = "audit"
    /\ duplicates' = check_duplicate_products_in_output(products_json, porder)
    /\ pc' = "done"
    /\ UNCHANGED <<disk, run, product_ids, config, stats, start, i, results, tasks,
                   dispatched>>

\* The process is terminated while crawl() runs; its memory is lost.
Kill ==
    /\ pc \in {"loaded", "batch", "gather", "save", "audit"}
    /\ pc' = "idle"
    /\ product_ids' = <<>>
    /\ stats' = NewStats
    /\ start' = 0
    /\ i' = 0
    /\ results' = <<>>
    /\ tasks' = <<>>
    /\ dispatched' = {}
    /\ duplicates' = <<>>
    /\ UNCHANGED <<disk, run, config>>

\* No process yet, an output folder holding the given batch files and no failure
\* file, and the constructor arguments of every crawler that will run on it, drawn
\* from the given sets.
StartOn(folders, configs, retries) ==
    /\ products_json \in folders
    /\ failed_json = <<>>
    /\ all_failed_products = <<>>
    /\ run = 0
    /\ pc = "idle"
    /\ product_ids = <<>>
    /\ \E c \in configs : batch_size = c[1] /\ concurrent_requests = c[2]
    /\ max_retries \in retries
    /\ stats = NewStats
    /\ start = 0
    /\ i = 0
    /\ results = <<>>
    /\ tasks = <<>>
    /\ dispatched = {}
    /\ duplicates = <<>>

\* The same with an empty output folder.
Start(configs, retries) == StartOn({<<>>}, configs, retries)

\* Repeated runs, finished or killed, over one output folder, with any input file;
\* the service answers 200 with a complete record, 500, or not in time.
CrawlOutcomes == {o \in Outcomes : o.type \in {"status", "timeout"} /\ o.status # 404}

Init == Start(Configs, Retries)

Next ==
    \/ \E ids \in Lists(MaxInputLen), forder \in Orders(DOMAIN failed_json) :
          Main(ids, batch_size, concurrent_requests, max_retries, forder)
    \/ SkipBatch
    \/ FetchBatch
    \/ \E k \in DOMAIN tasks : Success(k, "full")
    \/ \E k \in DOMAIN tasks, outcome \in CrawlOutcomes : Failure(k, outcome)
    \/ \E k \in DOMAIN tasks : Retry(k)
    \/ Gather
    \/ SaveBatch
    \/ Finish
    \/ \E porder \in Orders(DOMAIN products_json) : PostCrawlAnalysis(porder)
    \/ Kill

Spec == Init /\ [][Next]_vars

\* The runs of a crawler given one product at a time, with every retry cap and
\* every answer of the service.
InitFetch == Start({<<1, 1>>}, 0..MaxRetries)

NextFetch ==
    \/ \E id \in Ids, forder \in Orders(DOMAIN failed_json) :
          Main(<<id>>, batch_size, concurrent_requests, max_retries, forder)
    \/ SkipBatch
    \/ FetchBatch
    \/ \E k \in DOMAIN tasks, kind \in PayloadKinds : Success(k, kind)
    \/ \E k \in DOMAIN tasks, outcome \in Outcomes : Failure(k, outcome)
    \/ \E k \in DOMAIN tasks : Retry(k)
    \/ Gather
    \/ SaveBatch
    \/ Finish
    \/ \E porder \in Orders(DOMAIN products_json) : PostCrawlAnalysis(porder)

SpecFetch == InitFetch /\ [][NextFetch]_vars

\* The input file of a crawl that is restarted: the same rows at every start.
ResumeInput == <<"A", "B", "C">>

\* Repeated runs, finished or killed, over one output folder and that input file.
InitResume == Start(Configs, Retries)

NextResume ==
    \/ \E forder \in Orders(DOMAIN failed_json) :
          Main(ResumeInput, batch_size, concurrent_requests, max_retries, forder)
    \/ SkipBatch
    \/ FetchBatch
    \/ \E k \in DOMAIN tasks : Success(k, "full")
    \/ \E k \in DOMAIN tasks, outcome \in CrawlOutcomes : Failure(k, outcome)
    \/ \E k \in DOMAIN tasks : Retry(k)
    \/ Gather
    \/ SaveBatch
    \/ Finish
    \/ \E porder \in Orders(DOMAIN products_json) : PostCrawlAnalysis(porder)
    \/ Kill

SpecResume == InitResume /\ [][NextResume]_vars

\* Runs that are never terminated from outside, in batches of two ids fetched one
\* or two at a time, with no attempt or two attempts per id. The event loop runs every coroutine that is ready: each request
\* that is awaited ends (response, timeout or error), each sleep ends, and crawl()
\* itself goes on whenever it is not awaiting workers.
LiveConfigs == {<<2, 1>>, <<2, 2>>}
LiveRetries == {0, 2}
WorkerSlots == {1, 2}

InitLive == Start(LiveConfigs, LiveRetries)

AttemptEnds(k) ==
    /\ k \in DOMAIN tasks
    /\ \/ Success(k, "full")
       \/ \E outcome \in CrawlOutcomes : Failure(k, outcome)

SleepEnds(k) == k \in DOMAIN tasks /\ Retry(k)

CrawlSteps ==
    \/ SkipBatch
    \/ FetchBatch
    \/ Gather
    \/ SaveBatch
    \/ Finish
    \/ \E porder \in Orders(DOMAIN products_json) : PostCrawlAnalysis(porder)

RunSteps ==
    \/ CrawlSteps
    \/ \E k \in WorkerSlots : AttemptEnds(k)
    \/ \E k \in WorkerSlots : SleepEnds(k)

\* Input files of every length up to that of ResumeInput.
LiveInputs == {SubSeq(ResumeInput, 1, n) : n \in 0..Len(ResumeInput)}

NextLive ==
    \/ \E ids \in LiveInputs, forder \in Orders(DOMAIN failed_json) :
          Main(ids, batch_size, concurrent_requests, max_retries, forder)
    \/ RunSteps

Fairness == WF_vars(RunSteps)

SpecLive == InitLive /\ [][NextLive]_vars /\ Fairness

\* Repeated finished runs over one output folder, with any input file, main() taken
\* as two steps; one attempt per product.
InitLoad == Start({<<1, 1>>, <<2, 1>>}, {1})

NextLoad ==
    \/ \E ids \in Lists(MaxInputLen) :
          LoadProductIds(ids, batch_size, concurrent_requests, max_retries)
    \/ \E forder \in Orders(DOMAIN failed_json) : Crawl(forder)
    \/ SkipBatch
    \/ FetchBatch
    \/ \E k \in DOMAIN tasks : Success(k, "full")
    \/ \E k \in DOMAIN tasks, outcome \in CrawlOutcomes : Failure(k, outcome)
    \/ Gather
    \/ SaveBatch
    \/ Finish
    \/ \E porder \in Orders(DOMAIN products_json) : PostCrawlAnalysis(porder)

SpecLoad == InitLoad /\ [][NextLoad]_vars

\* Batch files products_1.json and products_2.json as the folder may hold them
\* before the first run, whoever wrote them: each absent or an array of at most
\* MaxFileLen complete records.
AuditFiles == {1, 2}
AuditFolders ==
    UNION {[S -> {[k \in DOMAIN l |-> ProductData(Payload(l[k], "full"))] :
                      l \in Lists(MaxFileLen)}] : S \in SUBSET AuditFiles}

\* Runs of a one-id-per-batch crawler over such a folder.
InitAudit == StartOn(AuditFolders, {<<1, 1>>}, {1})

NextAudit ==
    \/ \E ids \in Lists(MaxFileLen), forder \in Orders(DOMAIN failed_json) :
          Main(ids, batch_size, concurrent_requests, max_retries, forder)
    \/ SkipBatch
    \/ FetchBatch
    \/ \E k \in DOMAIN tasks : Success(k, "full")
    \/ \E k \in DOMAIN tasks, outcome \in CrawlOutcomes : Failure(k, outcome)
    \/ Gather
    \/ SaveBatch
    \/ Finish
    \/ \E porder \in Orders(DOMAIN products_json) : PostCrawlAnalysis(porder)

SpecAudit == InitAudit /\ [][NextAudit]_vars

\* ------------------------------------------------------------------- claims
\* Ids that are a record id in some products_N.json.
Covered == {r.id : r \in UNION {Range(products_json[f]) : f \in DOMAIN products_json}}

\* The FailureRecords fetch_product reported in this run.
FailedThisRun == SelectSeq(stats.failed_products, LAMBDA p : p.timestamp = run)

\* The id has an outcome of this run: a record collected or saved, or a FailureRecord.
HasOutcome(id) ==
    \/ \E k \in DOMAIN results : results[k].id = id
    \/ id \in Covered
    \/ \E k \in DOMAIN FailedThisRun : FailedThisRun[k].product_id = id

\* C1: when crawl() runs on a folder whose BatchUnits cover A and B and only C is
\* pending, then by the end of the run a Fetch Worker was dispatched for C and for
\* no other id, and C has an outcome (a record in a BatchUnit or a FailureRecord).
C1_ResumeProcessesOnlyNewId ==
    (pc = "done" /\ product_ids = <<"C">> /\ {"A", "B"} \subseteq Covered)
        => (dispatched = {"C"} /\ HasOutcome("C"))

\* C2: every Identifier is a record id in at most one products_N.json, after any
\* sequence of finished or killed runs with any input lists.
C2_IdInAtMostOneBatchUnit ==
    \A id \in Ids :
        Cardinality({f \in DOMAIN products_json :
                        \E k \in DOMAIN products_json[f] : products_json[f][k].id = id}) <= 1

\* A second run has written a BatchUnit with records next to a BatchUnit holding
\* records that this run did not fetch.
C2_Witness ==
    /\ run = 2
    /\ pc = "done"
    /\ \E f, g \in DOMAIN products_json :
          /\ f # g
          /\ products_json[g] # <<>>
          /\ \A k \in DOMAIN products_json[g] : products_json[g][k].id \in dispatched
          /\ products_json[f] # <<>>
          /\ \A k \in DOMAIN products_json[f] : products_json[f][k].id \notin dispatched

\* C3: no step changes or removes a products_N.json that exists, and at a batch
\* whose file exists the run moves on without a fetch and without a save.
C3_ExistingBatchUnitNeverWritten ==
    [][/\ \A f \in DOMAIN products_json :
             f \in DOMAIN products_json' /\ products_json'[f] = products_json[f]
       /\ (pc = "batch" /\ start < Len(product_ids)
              /\ (start \div batch_size) + 1 \in DOMAIN products_json)
             => (tasks' = <<>> /\ dispatched' \subseteq dispatched
                    /\ products_json' = products_json)]_vars

\* A run has passed a batch whose file existed: it is past the first batch and has
\* dispatched nothing.
C3_Witness ==
    /\ pc = "batch"
    /\ start > 0
    /\ dispatched = {}
    /\ DOMAIN products_json # {}

\* C4: each failed_<error_kind>.json holds at most one FailureRecord per product_id.
C4_OneFailureRecordPerIdInPartition ==
    \A f \in DOMAIN failed_json :
        \A a, b \in DOMAIN failed_json[f] :
            a # b => failed_json[f][a].product_id # failed_json[f][b].product_id

\* A finished run re-failed, with the same error kind, a product_id that a failure
\* partition already held.
C4_Witness ==
    /\ pc = "done"
    /\ \E a, b \in DOMAIN stats.failed_products :
          /\ stats.failed_products[a].product_id = stats.failed_products[b].product_id
          /\ stats.failed_products[a].error_code = stats.failed_products[b].error_code
          /\ stats.failed_products[a].timestamp < run
          /\ stats.failed_products[b].timestamp = run
          /\ Lower(stats.failed_products[a].error_code) \in DOMAIN failed_json

\* The calls of the given Tracker method among the reports of a task.
Calls(t, method) == Len(SelectSeq(t.reports, LAMBDA c : c[1] = method))

\* C5: with max_retries n >= 1, a fetch_product whose attempts end in HTTP 500 has,
\* once finished, made n requests and slept n-1 times with the delays 1, 2, ..., n-1,
\* reported one failure of kind "500" and returned no record; and at every moment it
\* has slept once per request made so far, less one unless it is sleeping.
C5_RetriesWithIncreasingBackoff ==
    \A k \in DOMAIN tasks :
        LET t == tasks[k] IN
        /\ (t.requests >= 1 /\ t.at # "sleep") => Len(t.sleeps) = t.requests - 1
        /\ t.at = "sleep" => Len(t.sleeps) = t.requests
        /\ (max_retries >= 1 /\ t.at = "done" /\ t.last_error = <<"HTTP", "500">>
               /\ t.returned = <<>>)
              => /\ t.requests = max_retries
                 /\ t.sleeps = [j \in 1..(max_retries - 1) |-> j]
                 /\ \A j \in 1..(Len(t.sleeps) - 1) : t.sleeps[j] < t.sleeps[j + 1]
                 /\ t.reports = << <<"add_failure", "500">> >>
                 /\ \E f \in DOMAIN FailedThisRun :
                       /\ FailedThisRun[f].product_id = t.product_id
                       /\ FailedThisRun[f].error_code = "500"

\* A worker with max_retries = 3 has failed on HTTP 500 after sleeping 1 and 2.
C5_Witness ==
    /\ max_retries = 3
    /\ \E k \in DOMAIN tasks :
          /\ tasks[k].at = "done"
          /\ tasks[k].last_error = <<"HTTP", "500">>
          /\ tasks[k].returned = <<>>
          /\ tasks[k].sleeps = <<1, 2>>

\* C6: no fetch_product raises; a finished one has reported exactly one outcome,
\* add_success with a record returned or add_failure with none, and sent no request
\* after the one that was answered 200; an unfinished one has reported none.
C6_ExactlyOneOutcomeNeverRaises ==
    \A k \in DOMAIN tasks :
        LET t == tasks[k] IN
        /\ t.at # "raised"
        /\ t.at \in {"get", "sleep"}
              => Calls(t, "add_success") = 0 /\ Calls(t, "add_failure") = 0
        /\ t.at = "done"
              => \/ /\ Len(t.returned) = 1
                    /\ Calls(t, "add_success") = 1
                    /\ Calls(t, "add_failure") = 0
                    /\ t.requests = t.attempt + 1
                 \/ /\ t.returned = <<>>
                    /\ Calls(t, "add_success") = 0
                    /\ Calls(t, "add_failure") = 1
                    /\ t.requests = max_retries

\* A worker returned a record at its second attempt, after an exception at the first.
C6_Witness ==
    \E k \in DOMAIN tasks :
        /\ tasks[k].at = "done"
        /\ Len(tasks[k].returned) = 1
        /\ tasks[k].attempt = 1
        /\ tasks[k].last_error \in ExceptionTexts

\* C7: a first run on the empty folder in which every pending id succeeded has
\* written exactly the units 1..ceil(N/b), unit k holding the records of the ids at
\* input positions (k-1)*b .. min(k*b, N)-1, in input order.
C7_BatchUnitsPartitionInputInOrder ==
    (run = 1 /\ pc = "done" /\ product_ids # <<>> /\ stats.failed = 0)
        => LET N == Len(product_ids)
               b == batch_size
               units == (N + b - 1) \div b
           IN /\ DOMAIN products_json = 1..units
              /\ \A u \in 1..units :
                    LET lo == (u - 1) * b
                        hi == IF u * b < N THEN u * b ELSE N
                    IN /\ Len(products_json[u]) = hi - lo
                       /\ \A j \in 1..(hi - lo) :
                             products_json[u][j].id = product_ids[lo + j]

\* batch_size 2 and concurrency 1 over 3 ids that all succeeded: two units, of 2
\* records and of 1.
C7_Witness ==
    /\ run = 1
    /\ pc = "done"
    /\ stats.failed = 0
    /\ batch_size = 2
    /\ concurrent_requests = 1
    /\ Len(product_ids) = 3
    /\ DOMAIN products_json = {1, 2}
    /\ Len(products_json[1]) = 2
    /\ Len(products_json[2]) = 1

\* C8: while a batch is fetched, the workers are those of one window of that batch,
\* at most `concurrency` of them, and every id dispatched earlier in the run has its
\* outcome: no window starts before the window before it has finished.
C8_WindowsDoNotOverlap ==
    LET lo == start
        hi == IF start + batch_size < Len(product_ids)
              THEN start + batch_size ELSE Len(product_ids)
        wlo == lo + i
        whi == IF wlo + concurrent_requests < hi THEN wlo + concurrent_requests ELSE hi
        inflight == {k \in DOMAIN tasks : tasks[k].at # "done"}
    IN /\ Cardinality(inflight) <= concurrent_requests
       /\ pc # "gather" => inflight = {}
       /\ pc = "gather"
             => /\ Len(tasks) = whi - wlo
                /\ \A k \in DOMAIN tasks : tasks[k].product_id = product_ids[wlo + k]
                /\ \A id \in dispatched \ {tasks[k].product_id : k \in DOMAIN tasks} :
                      HasOutcome(id)

\* The second window of a batch is in flight.
C8_Witness ==
    /\ pc = "gather"
    /\ i > 0
    /\ \E k \in DOMAIN tasks : tasks[k].at = "get"

\* The array all_failed_products.json holds, empty while the file is absent.
AllFailedContent == IF all_failed_products = <<>> THEN <<>> ELSE all_failed_products[1]

\* C9: after a run that reached the end of crawl(), all_failed_products.json holds
\* exactly the FailureRecords the Fetch Workers of this run produced.
C9_AllFailedHoldsThisRunOnly ==
    (pc = "done" /\ product_ids # <<>>) => AllFailedContent = FailedThisRun

\* C10: a first run over one product that was answered 200 has the record in its
\* BatchUnit, has counted it completed once, and has counted it incomplete once if
\* its price is missing and not at all if the record is complete.
C10_IncompleteRecordPersistedAndCounted ==
    /\ (run = 1 /\ pc = "gather")
          => \A k \in DOMAIN tasks :
                (tasks[k].at = "done" /\ Len(tasks[k].returned) = 1)
                   => /\ stats.completed = 1
                      /\ stats.products_with_missing_fields =
                            (IF tasks[k].returned[1].price = Null THEN 1 ELSE 0)
    /\ (run = 1 /\ pc = "done" /\ stats.failed = 0 /\ product_ids # <<>>)
          => /\ 1 \in DOMAIN products_json
             /\ Len(products_json[1]) = 1
             /\ products_json[1][1].id = product_ids[1]
             /\ stats.completed = 1
             /\ stats.products_with_missing_fields =
                   (IF products_json[1][1].price = Null THEN 1 ELSE 0)

\* A record without price is in products_1.json and was counted incomplete once.
C10_Witness ==
    /\ run = 1
    /\ pc = "done"
    /\ 1 \in DOMAIN products_json
    /\ Len(products_json[1]) = 1
    /\ products_json[1][1].price = Null
    /\ stats.products_with_missing_fields = 1
    /\ stats.completed = 1


\* The batch numbers of the files holding a record with the given id.
UnitsOf(id) == {f \in DOMAIN products_json : \E r \in Range(products_json[f]) : r.id = id}

\* C11: once the duplicate audit of a run has run, it reports an id if and only if
\* the id is a record id in more than one batch file, and maps it to exactly the
\* files that contain it, each once (disjoint files give the empty mapping).
C11_AuditReportsIdsInSeveralUnits ==
    (pc = "done" /\ product_ids # <<>>) =>
        /\ DOMAIN duplicates = {id \in Covered : Cardinality(UnitsOf(id)) > 1}
        /\ \A id \in DOMAIN duplicates :
              /\ Range(duplicates[id]) = UnitsOf(id)
              /\ Len(duplicates[id]) = Cardinality(UnitsOf(id))


\* Position of the first occurrence of x in the list s.
FirstIndex(s, x) == CHOOSE k \in DOMAIN s : s[k] = x /\ \A j \in 1..(k - 1) : s[j] # x

\* The list d holds exactly the members of the set S, each once, in the order of
\* their first occurrences in the list s.
OnceInFirstOrder(d, S, s) ==
    /\ Range(d) = S
    /\ Len(d) = Cardinality(S)
    /\ \A a, b \in DOMAIN d : a < b => FirstIndex(s, d[a]) < FirstIndex(s, d[b])

\* C12: for the input list crawl() is entered with, deduplicate_list returns each
\* distinct identifier of the list exactly once, ordered by first occurrence, and
\* crawl() sets total_products to the length of that list.
C12_DeduplicatedOnceInFirstOccurrenceOrder ==
    [][(pc = "loaded" /\ pc' # "loaded") =>
          /\ OnceInFirstOrder(deduplicate_list(product_ids), Range(product_ids), product_ids)
          /\ stats'.total_products = Cardinality(Range(product_ids))]_vars

\* An input list of three rows with a repeated id is loaded and deduplicates to B, A.
C12_Witness ==
    /\ pc = "loaded"
    /\ Len(product_ids) = 3
    /\ stats.total_products = 3
    /\ deduplicate_list(product_ids) = <<"B", "A">>

\* C13: the pending list crawl() computes is the deduplicated input without the ids
\* that are record ids of a batch file, in input order; and no step hands
\* fetch_product an id that is a record id of a batch file.
C13_PendingIsInputMinusCompleted ==
    [][/\ (pc = "loaded" /\ pc' # "loaded") =>
             OnceInFirstOrder(product_ids', Range(product_ids) \ Covered, product_ids)
       /\ (dispatched' \ dispatched) \cap Covered = {}]_vars

\* A second run whose input had ids of earlier batch files dispatches one of the rest.
C13_Witness ==
    /\ run = 2
    /\ pc = "gather"
    /\ Covered # {}
    /\ dispatched # {}
    /\ stats.total_products > Len(product_ids)

\* Some failed_<code>.json holds a FailureRecord of the id.
FailureOnDisk(id) ==
    \E f \in DOMAIN failed_json : \E rec \in Range(failed_json[f]) : rec.product_id = id

\* C14: when a run over the input list was terminated and crawl() restarted on the
\* same list has run to its end, every identifier of the list is a record of
\* exactly one batch file or has a FailureRecord on disk.
C14_CleanResumeAfterInterruption ==
    (run = 2 /\ pc = "done") =>
        \A id \in Range(ResumeInput) :
            Cardinality(UnitsOf(id)) = 1 \/ FailureOnDisk(id)

\* Number of records in the batch files, and of FailureRecords in the failure files.
RecordsOnDisk ==
    Cardinality(UNION {{f} \X DOMAIN products_json[f] : f \in DOMAIN products_json})
FailuresOnDisk ==
    Cardinality(UNION {{f} \X DOMAIN failed_json[f] : f \in DOMAIN failed_json})

\* C15: when all workers of a window have finished, in whatever order their steps
\* were taken, completed stands at its value when the window started (the records on
\* disk and those collected from earlier windows of the batch) plus the workers that
\* returned a record, failed at the replayed failures plus this run's FailureRecords,
\* and the failure list holds exactly one FailureRecord of this run for each worker
\* that returned None and none for the others; so completed + failed grew by the
\* size of the window.
C15_NoLostTrackerUpdates ==
    (pc = "gather" /\ \A k \in DOMAIN tasks : tasks[k].at = "done") =>
        LET ok == {k \in DOMAIN tasks : tasks[k].returned # <<>>}
            ko == {k \in DOMAIN tasks : tasks[k].returned = <<>>}
            mine(id) == {j \in DOMAIN FailedThisRun : FailedThisRun[j].product_id = id}
            earlier == dispatched \ {tasks[k].product_id : k \in DOMAIN tasks}
        IN /\ stats.completed = RecordsOnDisk + Len(results) + Cardinality(ok)
           /\ stats.failed = FailuresOnDisk + Len(FailedThisRun)
           /\ Len(stats.failed_products) = stats.failed
           /\ \A k \in ko : Cardinality(mine(tasks[k].product_id)) = 1
           /\ \A k \in ok : mine(tasks[k].product_id) = {}
           /\ \A j \in DOMAIN FailedThisRun :
                 FailedThisRun[j].product_id \in earlier =>
                     /\ Cardinality(mine(FailedThisRun[j].product_id)) = 1
                     /\ FailedThisRun[j].product_id \notin Covered
           /\ Len(FailedThisRun)
                 = Cardinality(ko) + Cardinality({id \in earlier : mine(id) # {}})

\* A window of two workers has finished: the first returned None at its second
\* attempt, the second a record at its first.
C15_Witness ==
    /\ pc = "gather"
    /\ Len(tasks) = 2
    /\ \A k \in DOMAIN tasks : tasks[k].at = "done"
    /\ tasks[1].returned = <<>>
    /\ tasks[1].requests = 2
    /\ tasks[2].returned # <<>>
    /\ tasks[2].requests = 1

\* The error_code a finished worker passed to add_failure.
Kind(t) == t.reports[Len(t.reports)][2]

\* Workers that have reported a failure after at least one attempt.
FailedFetches ==
    {k \in DOMAIN tasks :
        tasks[k].at = "done" /\ tasks[k].returned = <<>> /\ tasks[k].requests > 0}

C17_PersistenceOrder ==
    [][/\ (run' = run /\ pc' # "idle") => start' \in {start, start + batch_size}
       /\ products_json' # products_json =>
             /\ pc = "save"
             /\ tasks = <<>>
             /\ DOMAIN products_json' = DOMAIN products_json \cup {BatchNum}
             /\ products_json'[BatchNum] = results
       /\ (dispatched' # dispatched /\ dispatched' # {}) =>
             /\ dispatched' \ dispatched \subseteq Range(BatchIds)
             /\ \A n \in 1..BatchIndex : n \in DOMAIN products_json
             /\ \A k \in DOMAIN tasks : tasks[k].at = "done"
       /\ (failed_json' # failed_json \/ all_failed_products' # all_failed_products) =>
             /\ pc = "batch"
             /\ start >= Len(product_ids)
             /\ pc' = "audit"
       /\ (pc' = "audit" /\ pc # "audit") => (pc = "batch" /\ start >= Len(product_ids))
       /\ (pc' = "done" /\ pc \notin {"idle", "done"}) => (pc = "audit" /\ disk' = disk)]_vars

\* A run has written two batch files and a failure file and has ended.
C17_Witness ==
    /\ pc = "done"
    /\ run = 1
    /\ DOMAIN products_json = {1, 2}
    /\ failed_json # <<>>
    /\ all_failed_products # <<>>

\* C18: when crawl() is entered with an input list whose ids are all record ids of
\* batch files, that step ends the run: no fetch_product is called, no file of the
\* output folder is written, the audit is not run, and the only step that follows
\* is the start of another process.
C18_AlreadyDoneLeavesStorageUntouched ==
    [][/\ (pc = "loaded" /\ pc' # "loaded" /\ Range(product_ids) \subseteq Covered) =>
             /\ pc' = "done"
             /\ product_ids' = <<>>
             /\ disk' = disk
             /\ dispatched' = {}
             /\ tasks' = <<>>
             /\ duplicates' = duplicates
       /\ (pc = "done" /\ product_ids = <<>>) => (pc' = "loaded" /\ disk' = disk)]_vars

\* A run given ids that all have their record ended at once, on a folder that also
\* holds failure files.
C18_Witness ==
    /\ pc = "done"
    /\ run = 2
    /\ product_ids = <<>>
    /\ stats.total_products = 2
    /\ dispatched = {}
    /\ failed_json # <<>>
    /\ all_failed_products # <<>>

\* C19: no worker sends more than max_retries requests, and a run that is in its
\* batch loop, awaiting workers, saving or auditing eventually ends (crawl() that
\* finds nothing pending ends in its first step).
C19_EveryRunTerminates ==
    /\ [](\A k \in DOMAIN tasks : tasks[k].requests <= max_retries)
    /\ (pc \in {"batch", "gather", "save", "audit"}) ~> (pc = "done")

\* A run over three pending ids, two attempts allowed, has ended with failures and
\* successes.
C19_Witness ==
    /\ pc = "done"
    /\ max_retries = 2
    /\ Len(product_ids) = 3
    /\ stats.failed > 0
    /\ stats.completed > 0

\* C20: at the end of a run, the failure list of the stats holds no two
\* FailureRecords with the same product_id, failed is the number of distinct
\* product_ids in it, and completed is the number of records in the batch files.
C20_TrackerCountersAfterResume ==
    pc = "done" =>
        LET fp == stats.failed_products IN
        /\ \A a, b \in DOMAIN fp : a # b => fp[a].product_id # fp[b].product_id
        /\ stats.failed = Cardinality({fp[k].product_id : k \in DOMAIN fp})
        /\ stats.completed = RecordsOnDisk

\* Number of records with the given id over all batch files.
RecordsOf(id) ==
    Cardinality(UNION {{<<f, j>> : j \in {n \in DOMAIN products_json[f] :
                                            products_json[f][n].id = id}} :
                       f \in DOMAIN products_json})

\* Number of FailureRecords of the given id in the failure list of the stats.
FailuresOf(id) ==
    Cardinality({k \in DOMAIN stats.failed_products :
                    stats.failed_products[k].product_id = id})

\* C21: when the first process, started on the empty output folder, has run crawl()
\* to its end with something to crawl, completed + failed equals total_products,
\* which is the number of distinct input ids, and each of these ids has either
\* exactly one record over all batch files and no FailureRecord, or exactly one
\* FailureRecord in the stats and no record.
C21_ConservationOnFreshRun ==
    (run = 1 /\ pc = "done" /\ product_ids # <<>>) =>
        /\ stats.completed + stats.failed = stats.total_products
        /\ stats.total_products = Cardinality(Range(product_ids))
        /\ \A id \in Range(product_ids) :
              \/ RecordsOf(id) = 1 /\ FailuresOf(id) = 0
              \/ RecordsOf(id) = 0 /\ FailuresOf(id) = 1

\* A fresh run over three ids has ended: two ids have their record, in two batch
\* files, and one has its FailureRecord.
C21_Witness ==
    /\ run = 1
    /\ pc = "done"
    /\ Len(product_ids) = 3
    /\ stats.completed = 2
    /\ stats.failed = 1
    /\ DOMAIN products_json = {1, 2}
    /\ RecordsOf(product_ids[2]) = 0
    /\ FailuresOf(product_ids[2]) = 1

====
